---- MODULE Spec2Model ----
(***************************************************************************)
(* Model of restshop/views.py: the checkout handler OrderViewSet.create,   *)
(* the order read handlers OrderViewSet.list / retrieve and the catalog    *)
(* query builder ProductListView.get_queryset.                             *)
(*                                                                         *)
(* Every ORM statement that touches the database is one atomic step; the   *)
(* Python code between two such statements is folded into the step that    *)
(* follows the read it depends on.  Request threads interleave between     *)
(* steps.                                                                  *)
(***************************************************************************)
EXTENDS Integers, Sequences, FiniteSets, TLC

VARIABLES stock, orders, orderUnits, call, overlap, response, listing

vars == <<stock, orders, orderUnits, call, overlap, response, listing>>

(***************************************************************************)
(* Bounds of the model.                                                    *)
(***************************************************************************)
\* stock every Unit starts with in the checkout specifications
InitStock == 1
\* longest cart of a checkout that runs alone
MaxCartLen == 3
\* cart lines of all the checkouts together when several share the store
MaxConcLines == 2
\* highest Unit price of the catalog
MaxPrice == 2

(***************************************************************************)
(* The catalog (rows of Product, Unit, Tag, Property, PropertyValue).      *)
(***************************************************************************)
Buyers == {"b1", "b2"}
Products == {"p1", "p2", "p3"}
Units == {"u1", "u2", "u3"}
\* sku codes a cart may name: the sku of every Unit and one that matches none
Skus == Units \cup {"zz"}
Quantities == 1..(InitStock + 1)

\* Unit.product
ProductOf(u) == CASE u = "u1" -> "p1" [] u = "u2" -> "p2" [] u = "u3" -> "p1"
\* Product.seller
SellerOf(p) == CASE p = "p1" -> "s1" [] p = "p2" -> "s2" [] p = "p3" -> "s2"
\* unit.product.seller
UnitSeller(u) == SellerOf(ProductOf(u))
\* Product.unit_set
UnitsOf(p) == {u \in Units : ProductOf(u) = p}
\* Unit.price
PriceOf(u) == CASE u = "u1" -> 1 [] u = "u2" -> 1 [] u = "u3" -> MaxPrice

None == <<>>
Some(x) == <<x>>

(***************************************************************************)
(* OrderViewSet.create                                                     *)
(***************************************************************************)
Lines == [sku : Skus, quantity : Quantities]
CartsUpTo(n) == UNION {[1..k -> Lines] : k \in 0..n}

IdleCall == [pc |-> "idle", units |-> <<>>, i |-> 1, sellers |-> <<>>,
             orders |-> <<>>, unit |-> "", num_in_stock |-> 0, order |-> 0,
             status |-> 0]

InProgress(b) == call[b].pc \notin {"idle", "done"}

\* request.data is validated (lines 125-128); a valid payload enters the loop
Create(b, valid, units) ==
    /\ call[b].pc = "idle"
    /\ call' = [call EXCEPT ![b] =
                  IF valid
                  THEN [IdleCall EXCEPT !.pc = "loop", !.units = units]
                  ELSE [IdleCall EXCEPT !.pc = "done", !.status = 400]]
    /\ overlap' = (overlap \/ \E o \in Buyers \ {b} : InProgress(o))
    /\ UNCHANGED <<stock, orders, orderUnits, response, listing>>

\* faulty variant: the last unit in stock cannot be bought
SufficientStrict(n, quantity) == n > quantity

\* faulty variant: the stock test is missing
SufficientAlways(n, quantity) == TRUE

\* if unit.num_in_stock >= quantity
Sufficient(n, quantity) == n >= quantity

\* for unit_order in data['units']: Unit.objects.get(sku=...) and the stock test
NextLine(b) ==
    LET c == call[b] IN
    /\ c.pc = "loop"
    /\ IF c.i > Len(c.units)
       THEN call' = [call EXCEPT ![b].pc = "done", ![b].status = 201]
       ELSE LET line == c.units[c.i] IN
            IF line.sku \notin Units
            THEN call' = [call EXCEPT ![b].pc = "done",
                                      ![b].status = 500]
            ELSE IF Sufficient(stock[line.sku], line.quantity)
            THEN call' = [call EXCEPT ![b].pc = "order",
                                      ![b].unit = line.sku,
                                      ![b].num_in_stock = stock[line.sku]]
            ELSE call' = [call EXCEPT ![b].i = c.i + 1,
                                      ![b].unit = line.sku,
                                      ![b].num_in_stock = stock[line.sku]]
    /\ UNCHANGED <<stock, orders, orderUnits, overlap, response, listing>>

IndexOf(seq, x) == CHOOSE k \in 1..Len(seq) : seq[k] = x /\ \A j \in 1..(k - 1) : seq[j] # x
InSeq(seq, x) == \E k \in 1..Len(seq) : seq[k] = x

\* faulty variant: the newest order of the call is reused, whatever its seller
GetOrderBySellerLast(b, seller) ==
    LET c == call[b] IN
    IF c.sellers # <<>>
    THEN [order |-> c.orders[Len(c.orders)],
          store |-> orders, sellers |-> c.sellers, orders |-> c.orders]
    ELSE [order |-> Len(orders) + 1,
          store |-> Append(orders, [user |-> b]),
          sellers |-> Append(c.sellers, seller),
          orders |-> Append(c.orders, Len(orders) + 1)]

\* faulty variant: the lookup is skipped, every line gets a new order
GetOrderBySellerAlwaysNew(b, seller) ==
    LET c == call[b] IN
    [order |-> Len(orders) + 1,
     store |-> Append(orders, [user |-> b]),
     sellers |-> Append(c.sellers, seller),
     orders |-> Append(c.orders, Len(orders) + 1)]

\* get_order_by_seller: the order to use, and the store and the two lists after it
\* (name, address and phone are copied from the request into every Order and
\* read by no statement of the handler; an Order row is kept as its user)
GetOrderBySeller(b, seller) ==
    LET c == call[b] IN
    IF InSeq(c.sellers, seller)
    THEN [order |-> c.orders[IndexOf(c.sellers, seller)],
          store |-> orders, sellers |-> c.sellers, orders |-> c.orders]
    ELSE [order |-> Len(orders) + 1,
          store |-> Append(orders, [user |-> b]),
          sellers |-> Append(c.sellers, seller),
          orders |-> Append(c.orders, Len(orders) + 1)]

\* the argument order=get_order_by_seller(unit_seller) of line 169
GetOrder(b) ==
    LET c == call[b]
        r == GetOrderBySeller(b, UnitSeller(c.unit)) IN
    /\ c.pc = "order"
    /\ orders' = r.store
    /\ call' = [call EXCEPT ![b].pc = "orderunit", ![b].order = r.order,
                            ![b].sellers = r.sellers, ![b].orders = r.orders]
    /\ UNCHANGED <<stock, orderUnits, overlap, response, listing>>

\* OrderUnit.objects.create(order=..., unit=unit, quantity=quantity)
CreateOrderUnit(b) ==
    LET c == call[b] IN
    /\ c.pc = "orderunit"
    /\ orderUnits' = Append(orderUnits, [order |-> c.order, unit |-> c.unit,
                                         quantity |-> c.units[c.i].quantity])
    /\ call' = [call EXCEPT ![b].pc = "save"]
    /\ UNCHANGED <<stock, orders, overlap, response, listing>>

\* faulty variant: the decrement is forgotten
SavedStockNoDecrement(b) == call[b].num_in_stock

\* faulty variant: the decrement is applied to the stored value, without a new test
SavedStockInPlace(b) == stock[call[b].unit] - call[b].units[call[b].i].quantity

\* unit.num_in_stock -= quantity: the value unit.save() writes
SavedStock(b) == call[b].num_in_stock - call[b].units[call[b].i].quantity

\* unit.save()
Save(b) ==
    LET c == call[b] IN
    /\ c.pc = "save"
    /\ stock' = [stock EXCEPT ![c.unit] = SavedStock(b)]
    /\ call' = [call EXCEPT ![b].pc = "loop", ![b].i = c.i + 1,
                            ![b].num_in_stock = SavedStock(b)]
    /\ UNCHANGED <<orders, orderUnits, overlap, response, listing>>

Init ==
    /\ stock = [u \in Units |-> InitStock]
    /\ orders = <<>>
    /\ orderUnits = <<>>
    /\ call = [b \in Buyers |-> IdleCall]
    /\ overlap = FALSE
    /\ response = None
    /\ listing = None

\* lines of the carts already submitted
LinesInStore == LET RECURSIVE Sum(_)
                    Sum(S) == IF S = {} THEN 0
                              ELSE LET b == CHOOSE x \in S : TRUE
                                   IN Len(call[b].units) + Sum(S \ {b})
                IN Sum(Buyers)

SharedCarts == CartsUpTo(MaxConcLines - LinesInStore)

\* a buyer posts a checkout while the other buyer's may be running
StartShared(b) ==
    /\ call[b].pc = "idle"
    /\ \E valid \in BOOLEAN, units \in SharedCarts : Create(b, valid, units)

\* two buyers check out at the same time
Next ==
    \E b \in Buyers :
        \/ StartShared(b)
        \/ NextLine(b)
        \/ GetOrder(b)
        \/ CreateOrderUnit(b)
        \/ Save(b)

Spec == Init /\ [][Next]_vars

\* a buyer posts the only checkout of the run
StartAlone(b) ==
    /\ \A o \in Buyers : call[o].pc = "idle"
    /\ \E valid \in BOOLEAN, units \in CartsUpTo(MaxCartLen) : Create(b, valid, units)

\* one checkout runs alone
NextSeq ==
    \E b \in Buyers :
        \/ StartAlone(b)
        \/ NextLine(b)
        \/ GetOrder(b)
        \/ CreateOrderUnit(b)
        \/ Save(b)

SpecSeq == Init /\ [][NextSeq]_vars

(***************************************************************************)
(* OrderViewSet.list and OrderViewSet.retrieve                             *)
(***************************************************************************)
\* the rows of Order, each with its primary key
OrderRows == {[id |-> k, user |-> orders[k].user] : k \in 1..Len(orders)}

\* Order.objects.filter(user=user), serialized
ListResponse(user) ==
    [view |-> "list", user |-> user, pk |-> 0, status |-> 200,
     data |-> {o \in OrderRows : o.user = user}]

\* faulty variant: the owner test is missing
RetrieveResponseAnyone(user, pk) ==
    IF pk \notin 1..Len(orders)
    THEN [view |-> "retrieve", user |-> user, pk |-> pk, status |-> 500, data |-> {}]
    ELSE [view |-> "retrieve", user |-> user, pk |-> pk, status |-> 200,
          data |-> {[id |-> pk, user |-> orders[pk].user]}]

\* Order.objects.get(pk=pk), the owner test, the serialized order
RetrieveResponse(user, pk) ==
    IF pk \notin 1..Len(orders)
    THEN [view |-> "retrieve", user |-> user, pk |-> pk, status |-> 500, data |-> {}]
    ELSE IF user # orders[pk].user
    THEN [view |-> "retrieve", user |-> user, pk |-> pk, status |-> 401, data |-> {}]
    ELSE [view |-> "retrieve", user |-> user, pk |-> pk, status |-> 200,
          data |-> {[id |-> pk, user |-> orders[pk].user]}]

List(user) ==
    /\ response' = Some(ListResponse(user))
    /\ UNCHANGED <<stock, orders, orderUnits, call, overlap, listing>>

Retrieve(user, pk) ==
    /\ response' = Some(RetrieveResponse(user, pk))
    /\ UNCHANGED <<stock, orders, orderUnits, call, overlap, listing>>

\* no request is being served
Quiet == \A o \in Buyers : ~InProgress(o)

\* a checkout step: the response of an earlier read has been delivered
Step(b) ==
    /\ \/ NextLine(b)
       \/ GetOrder(b)
       \/ CreateOrderUnit(b)
       \/ Save(b)
    /\ response = None

StartCheckout(b) ==
    /\ Quiet
    /\ response = None
    /\ call[b].pc = "idle"
    /\ \E valid \in BOOLEAN, units \in SharedCarts : Create(b, valid, units)

StartList(b) ==
    /\ Quiet
    /\ List(b)

StartRetrieve(b) ==
    /\ Quiet
    /\ \E pk \in 1..(Len(orders) + 1) : Retrieve(b, pk)

Deliver ==
    /\ response # None
    /\ response' = None
    /\ UNCHANGED <<stock, orders, orderUnits, call, overlap, listing>>

\* the requests of the buyers are served one after the other
NextOrders ==
    \/ \E b \in Buyers : StartCheckout(b)
    \/ \E b \in Buyers : Step(b)
    \/ \E b \in Buyers : StartList(b)
    \/ \E b \in Buyers : StartRetrieve(b)
    \/ Deliver

SpecOrders == Init /\ [][NextOrders]_vars

(***************************************************************************)
(* ProductListView.get_queryset                                            *)
(*                                                                         *)
(* A text is a sequence of one-character strings.  A query parameter is    *)
(* None when the request does not carry it, Some(text) when it does.       *)
(***************************************************************************)
\* Product.title
TitleOf(p) == CASE p = "p1" -> <<"R", "e", "d">>
                [] p = "p2" -> <<"b", "e", "d">>
                [] p = "p3" -> <<"C", "a", "p">>
\* Tag.name of the tags of Product.tag_set
TagNamesOf(p) == CASE p = "p1" -> {<<"a">>, <<"B">>}
                   [] p = "p2" -> {<<"a">>}
                   [] p = "p3" -> {}
\* the rows of PropertyValue
PropertyValues == {[id |-> 1, property_id |-> "A"], [id |-> 2, property_id |-> "A"],
                   [id |-> 3, property_id |-> "B"]}
\* the ids of Unit.value_set
ValueSetOf(u) == CASE u = "u1" -> {1} [] u = "u2" -> {2} [] u = "u3" -> {3}

LowerMap == ("A" :> "a") @@ ("B" :> "b") @@ ("C" :> "c") @@ ("D" :> "d")
            @@ ("E" :> "e") @@ ("R" :> "r")
Lower(ch) == IF ch \in DOMAIN LowerMap THEN LowerMap[ch] ELSE ch

\* the lookup icontains
IContains(text, part) ==
    \E k \in 0..(Len(text) - Len(part)) :
        \A j \in 1..Len(part) : Lower(text[k + j]) = Lower(part[j])

\* the lookup iexact
IExact(text, other) ==
    /\ Len(text) = Len(other)
    /\ \A j \in 1..Len(text) : Lower(text[j]) = Lower(other[j])

\* str.split(',')
RECURSIVE Split(_)
Split(text) ==
    IF \A k \in 1..Len(text) : text[k] # ","
    THEN <<text>>
    ELSE LET k == CHOOSE n \in 1..Len(text) :
                      text[n] = "," /\ \A j \in 1..(n - 1) : text[j] # ","
         IN <<SubSeq(text, 1, k - 1)>> \o Split(SubSeq(text, k + 1, Len(text)))

Digits == <<"0", "1", "2", "3", "4", "5", "6", "7", "8", "9">>
DigitValue(ch) == (CHOOSE k \in 1..Len(Digits) : Digits[k] = ch) - 1

\* str.isdigit()
IsDigit(text) ==
    /\ Len(text) > 0
    /\ \A k \in 1..Len(text) : \E d \in 1..Len(Digits) : Digits[d] = text[k]

\* int(text) of a text of digits
RECURSIVE ToInt(_)
ToInt(text) ==
    IF Len(text) = 0 THEN 0
    ELSE 10 * ToInt(SubSeq(text, 1, Len(text) - 1)) + DigitValue(text[Len(text)])

\* a parameter that is not None and not empty
Truthy(param) == param # None /\ param[1] # <<>>

\* if q is not None: filter(title__icontains=q)
FilterQ(qs, params) ==
    IF params.q # None
    THEN {p \in qs : IContains(TitleOf(p), params.q[1])}
    ELSE qs

\* for tag in tags: filter(tag_set__name__iexact=tag).distinct()
RECURSIVE FilterEachTag(_, _)
FilterEachTag(qs, tags) ==
    IF tags = <<>> THEN qs
    ELSE FilterEachTag({p \in qs : \E name \in TagNamesOf(p) : IExact(name, Head(tags))},
                       Tail(tags))

\* if tags: tags = tags.split(',') and the loop over them
FilterTags(qs, params) ==
    IF Truthy(params.tags) THEN FilterEachTag(qs, Split(params.tags[1])) ELSE qs

\* criteria.split(','), when the parameter is given
Criteria(params) ==
    IF Truthy(params.properties) THEN Split(params.properties[1]) ELSE <<>>

\* id__in=criteria raises ValueError for an element that is no integer
CriteriaError(params) ==
    \E k \in 1..Len(Criteria(params)) : ~IsDigit(Criteria(params)[k])

\* PropertyValue.objects.filter(id__in=criteria)
CriteriaValues(params) ==
    {v \in PropertyValues :
        \E k \in 1..Len(Criteria(params)) : ToInt(Criteria(params)[k]) = v.id}

\* faulty variant: the values are not grouped by property
GroupedValuesUngrouped(values) ==
    IF values = {} THEN << >>
    ELSE [key \in {"all"} |-> {v.id : v \in values}]

\* grouped_values: property_id -> the ids of the values of that property
GroupedValues(values) ==
    [key \in {v.property_id : v \in values} |->
        {v.id : v \in {w \in values : w.property_id = key}}]

\* for key in grouped_values: filter(unit__value_set__in=values).distinct()
RECURSIVE FilterEachGroup(_, _, _)
FilterEachGroup(qs, grouped, keys) ==
    IF keys = {} THEN qs
    ELSE LET key == CHOOSE x \in keys : TRUE
         IN FilterEachGroup(
                {p \in qs : \E u \in UnitsOf(p) : ValueSetOf(u) \cap grouped[key] # {}},
                grouped, keys \ {key})

\* if criteria: the grouping and the loop over the groups
FilterProperties(qs, params) ==
    IF Truthy(params.properties)
    THEN LET grouped == GroupedValues(CriteriaValues(params))
         IN FilterEachGroup(qs, grouped, DOMAIN grouped)
    ELSE qs

\* if in_stock == '1': filter(unit__num_in_stock__gt=0).distinct()
FilterInStock(qs, params) ==
    IF params.in_stock = Some(<<"1">>)
    THEN {p \in qs : \E u \in UnitsOf(p) : stock[u] > 0}
    ELSE qs

\* if price_min is not None and price_min.isdigit(): filter(unit__price__gte=...)
FilterPriceMin(qs, params) ==
    IF params.price_min # None /\ IsDigit(params.price_min[1])
    THEN {p \in qs : \E u \in UnitsOf(p) : PriceOf(u) >= ToInt(params.price_min[1])}
    ELSE qs

\* faulty variant: both price bounds in one filter() call, so on one and the same unit
FilterPriceMaxSameUnit(qs, params) ==
    IF params.price_max # None /\ IsDigit(params.price_max[1])
    THEN {p \in qs : \E u \in UnitsOf(p) :
            /\ PriceOf(u) <= ToInt(params.price_max[1])
            /\ (params.price_min # None /\ IsDigit(params.price_min[1]))
                 => PriceOf(u) >= ToInt(params.price_min[1])}
    ELSE qs

\* if price_max is not None and price_max.isdigit(): filter(unit__price__lte=...)
FilterPriceMax(qs, params) ==
    IF params.price_max # None /\ IsDigit(params.price_max[1])
    THEN {p \in qs : \E u \in UnitsOf(p) : PriceOf(u) <= ToInt(params.price_max[1])}
    ELSE qs

\* get_queryset: the products returned, or the exception raised
GetQueryset(params) ==
    IF CriteriaError(params)
    THEN [error |-> TRUE, products |-> {}]
    ELSE [error |-> FALSE,
          products |->
            FilterPriceMax(
              FilterPriceMin(
                FilterInStock(
                  FilterProperties(
                    FilterTags(
                      FilterQ(Products, params), params), params), params), params),
              params)]

\* the values of the query parameters
QValues == {None, Some(<<>>), Some(<<"E", "D">>), Some(<<"r">>)}
TagsValues == {None, Some(<<>>), Some(<<"A">>), Some(<<"a", ",", "b">>),
               Some(<<"b", ",", "c">>), Some(<<"a", ",">>)}
PropertiesValues == {None, Some(<<"1">>), Some(<<"1", ",", "2">>), Some(<<"1", ",", "3">>),
                     Some(<<"2", ",", "3">>), Some(<<"1", ",", "2", ",", "3">>),
                     Some(<<"9">>), Some(<<"x">>)}
InStockValues == {None, Some(<<"1">>), Some(<<"0">>)}
PriceValues == {None, Some(<<"x">>)}
               \cup {Some(<<Digits[n + 1]>>) : n \in 0..(MaxPrice + 1)}
QueryParams == [q : QValues, tags : TagsValues, properties : PropertiesValues,
                in_stock : InStockValues, price_min : PriceValues,
                price_max : PriceValues]

\* GET of the product list
ProductList(params) ==
    /\ listing' = Some([params |-> params, result |-> GetQueryset(params)])
    /\ UNCHANGED <<stock, orders, orderUnits, call, overlap, response>>

\* any unit may be sold out when the catalog is listed
InitList ==
    /\ stock \in [Units -> {0, InitStock}]
    /\ orders = <<>>
    /\ orderUnits = <<>>
    /\ call = [b \in Buyers |-> IdleCall]
    /\ overlap = FALSE
    /\ response = None
    /\ listing = None

\* a run serves one listing request
NextList ==
    /\ listing = None
    /\ \E params \in QueryParams : ProductList(params)

SpecList == InitList /\ [][NextList]_vars

(***************************************************************************)
(* Properties of checkout.                                                 *)
(***************************************************************************)
OrderUnitIdx == 1..Len(orderUnits)

\* total quantity of the OrderUnits of unit u
Sold(u) ==
    LET RECURSIVE Sum(_)
        Sum(k) == IF k = 0 THEN 0
                  ELSE (IF orderUnits[k].unit = u THEN orderUnits[k].quantity ELSE 0)
                       + Sum(k - 1)
    IN Sum(Len(orderUnits))

\* sellers of the known units among the lines of a cart
CartSellers(units) ==
    {UnitSeller(units[k].sku) : k \in {j \in 1..Len(units) : units[j].sku \in Units}}

\* what the first k lines of a cart are to do to a store that starts with
\* InitStock of every unit: the stock left and the lines fulfilled
RECURSIVE Replay(_, _)
Replay(units, k) ==
    IF k = 0
    THEN [stock |-> [u \in Units |-> InitStock], lines |-> <<>>]
    ELSE LET prev == Replay(units, k - 1)
             line == units[k]
         IN IF line.quantity <= prev.stock[line.sku]
            THEN [stock |-> [prev.stock EXCEPT ![line.sku] = @ - line.quantity],
                  lines |-> Append(prev.lines, [unit |-> line.sku,
                                                quantity |-> line.quantity])]
            ELSE prev

Done(b) == call[b].pc = "done"
Succeeded(b) == call[b].pc = "done" /\ call[b].status = 201

\* C1: in every state, after checkouts of both buyers (one after the other or
\* interleaved), all OrderUnits of one Order are units of one seller.
C1_SellerPure ==
    \A i, j \in OrderUnitIdx :
        orderUnits[i].order = orderUnits[j].order
            => UnitSeller(orderUnits[i].unit) = UnitSeller(orderUnits[j].unit)

\* one checkout has put two different units of one seller into one Order
C1_Witness ==
    /\ \E i, j \in OrderUnitIdx :
          /\ orderUnits[i].order = orderUnits[j].order
          /\ orderUnits[i].unit # orderUnits[j].unit
    /\ \E b \in Buyers : Succeeded(b)

\* C2: a checkout creates at most one Order per seller: its sellers list has no
\* duplicates and pairs each seller with one Order, every OrderUnit is in the
\* Order of its unit's seller, and when every line of the cart was fulfilled
\* the Orders created are as many as the distinct sellers of the cart.
C2_OneOrderPerSeller ==
    \A b \in Buyers :
        LET c == call[b] IN
        c.pc # "idle" =>
        /\ Len(c.sellers) = Len(c.orders)
        /\ Len(c.orders) = Len(orders)
        /\ \A m, n \in 1..Len(c.sellers) :
              m # n => c.sellers[m] # c.sellers[n] /\ c.orders[m] # c.orders[n]
        /\ \A k \in OrderUnitIdx :
              /\ InSeq(c.sellers, UnitSeller(orderUnits[k].unit))
              /\ orderUnits[k].order
                    = c.orders[IndexOf(c.sellers, UnitSeller(orderUnits[k].unit))]
        /\ (Succeeded(b) /\ Len(orderUnits) = Len(c.units))
              => Len(orders) = Cardinality(CartSellers(c.units))

\* the cart s1, s2, s1 with every line fulfilled: two Orders, the two s1 lines
\* in the same one
C2_Witness ==
    \E b \in Buyers :
        /\ Succeeded(b)
        /\ Len(call[b].units) = 3
        /\ Len(orderUnits) = 3
        /\ UnitSeller(orderUnits[1].unit) = "s1"
        /\ UnitSeller(orderUnits[2].unit) = "s2"
        /\ UnitSeller(orderUnits[3].unit) = "s1"
        /\ orderUnits[1].order = orderUnits[3].order
        /\ orderUnits[1].order # orderUnits[2].order
        /\ Len(orders) = 2

\* C3: for a checkout that runs alone, whenever it stands between two lines
\* (or has returned) the stock and the OrderUnits are those of its lines so
\* far, taken one by one: a line with quantity <= stock adds one OrderUnit of
\* that quantity and lowers the stock by it, any other line changes nothing.
C3_LineByLine ==
    \A b \in Buyers :
        call[b].pc \in {"loop", "done"} =>
            LET r == Replay(call[b].units, call[b].i - 1) IN
            /\ stock = r.stock
            /\ Len(orderUnits) = Len(r.lines)
            /\ \A k \in OrderUnitIdx :
                  /\ orderUnits[k].unit = r.lines[k].unit
                  /\ orderUnits[k].quantity = r.lines[k].quantity

\* a cart whose first line is skipped and whose later line is fulfilled
C3_Witness ==
    \E b \in Buyers :
        /\ Succeeded(b)
        /\ Len(call[b].units) >= 2
        /\ call[b].units[1].quantity > InitStock
        /\ Len(orderUnits) >= 1
        /\ \E u \in Units : stock[u] = InitStock - Sold(u) /\ Sold(u) > 0
        /\ stock[call[b].units[1].sku] = InitStock

\* C4: unless two checkouts overlapped in time, no Unit has OrderUnits for
\* more than the stock it started with; with overlap it happens.
C4_NoOversellUnlessOverlap ==
    ~overlap => \A u \in Units : Sold(u) <= InitStock

\* both buyers' checkouts created an OrderUnit for the same Unit, for more in
\* total than its initial stock, and one decrement is lost
C4_Witness ==
    /\ overlap
    /\ \A b \in Buyers : Succeeded(b)
    /\ \E u \in Units :
          /\ Sold(u) > InitStock
          /\ stock[u] + Sold(u) > InitStock
          /\ \A b \in Buyers :
                \E k \in OrderUnitIdx :
                    orderUnits[k].unit = u /\ orders[orderUnits[k].order].user = b

\* C5: a checkout that ends in an error (validation, unknown sku) has created
\* no Order and no OrderUnit and changed no stock.
C5_FailureLeavesNoTrace ==
    \A b \in Buyers :
        (Done(b) /\ call[b].status # 201)
            => /\ orders = <<>>
               /\ orderUnits = <<>>
               /\ stock = [u \in Units |-> InitStock]

\* C9 as stated: a successful checkout has created as many Orders as its cart
\* has distinct sellers, skipped lines included.
C9_OrderPerCartSeller ==
    \A b \in Buyers :
        Succeeded(b) => Len(orders) = Cardinality(CartSellers(call[b].units))

\* C9 amended: the Order of a seller is created only for a line that passed
\* the stock test, so a successful checkout has created as many Orders as
\* there are distinct sellers among its fulfilled lines, and none is empty.
C9_OrderPerFulfilledSeller ==
    \A b \in Buyers :
        Succeeded(b) =>
            LET r == Replay(call[b].units, Len(call[b].units)) IN
            /\ Len(orders)
                 = Cardinality({UnitSeller(r.lines[k].unit) : k \in 1..Len(r.lines)})
            /\ \A o \in 1..Len(orders) : \E k \in OrderUnitIdx : orderUnits[k].order = o

\* every line of seller s2 was skipped, a line of s1 was fulfilled: one Order
C9_Witness ==
    \E b \in Buyers :
        /\ Succeeded(b)
        /\ CartSellers(call[b].units) = {"s1", "s2"}
        /\ Len(orders) = 1
        /\ \A k \in OrderUnitIdx : UnitSeller(orderUnits[k].unit) = "s1"

\* C10: no stock is ever negative, whatever the interleaving of the checkouts.
C10_StockNonNegative ==
    \A u \in Units : stock[u] \in Nat

\* two overlapping checkouts both wrote the stock of one Unit
C10_Witness ==
    /\ overlap
    /\ \A b \in Buyers : Succeeded(b)
    /\ \E u \in Units :
          /\ stock[u] = 0
          /\ \E j, k \in OrderUnitIdx :
                /\ j # k
                /\ orderUnits[j].unit = u
                /\ orderUnits[k].unit = u
                /\ orders[orderUnits[j].order].user # orders[orderUnits[k].order].user

(***************************************************************************)
(* Properties of the order read handlers.                                  *)
(***************************************************************************)
\* C8: a response of list or retrieve holds only Orders of the requesting
\* buyer; list holds all of them; retrieve of another buyer's Order is a 401
\* without data.
C8_OwnOrdersOnly ==
    response # None =>
        LET r == response[1] IN
        /\ \A o \in r.data : o.user = r.user /\ o \in OrderRows
        /\ r.view = "list"
              => \A o \in OrderRows : o.user = r.user => o \in r.data
        /\ (r.view = "retrieve" /\ r.pk \in 1..Len(orders))
              => IF orders[r.pk].user = r.user
                 THEN r.status = 200 /\ r.data = {[id |-> r.pk, user |-> r.user]}
                 ELSE r.status = 401 /\ r.data = {}

\* both buyers have Orders and one asks for an Order of the other
C8_Witness ==
    /\ response # None
    /\ response[1].view = "retrieve"
    /\ response[1].status = 401
    /\ \A b \in Buyers : \E o \in OrderRows : o.user = b

(***************************************************************************)
(* Properties of the catalog listing.                                      *)
(***************************************************************************)
ParamNames == {"q", "tags", "properties", "in_stock", "price_min", "price_max"}
NoParams == [name \in ParamNames |-> None]

\* the request that carries only the parameter name of params
Alone(params, name) == [NoParams EXCEPT ![name] = params[name]]

\* the products every set of a family of sets holds
RECURSIVE Intersection(_)
Intersection(family) ==
    IF family = {} THEN Products
    ELSE LET one == CHOOSE x \in family : TRUE
         IN one \cap Intersection(family \ {one})

Supplied(params) == {name \in ParamNames : params[name] # None}

\* C6: the products returned for a request are those returned for each of
\* its supplied parameters alone, intersected (an exception of the properties
\* parameter alone is the exception of the request).
C6_Composition ==
    listing # None =>
        LET params == listing[1].params
            result == listing[1].result
        IN IF result.error
           THEN GetQueryset(Alone(params, "properties")).error
           ELSE result.products
                  = Intersection({GetQueryset(Alone(params, name)).products :
                                    name \in Supplied(params)})

\* product p1 is returned because one of its units meets price_min and the
\* other one price_max, while no unit meets both
C6_Witness ==
    /\ listing # None
    /\ listing[1].params.price_min = Some(<<"2">>)
    /\ listing[1].params.price_max = Some(<<"1">>)
    /\ listing[1].params.in_stock = Some(<<"1">>)
    /\ listing[1].params.q # None
    /\ listing[1].params.tags # None
    /\ listing[1].params.properties # None
    /\ ~listing[1].result.error
    /\ "p1" \in listing[1].result.products

\* the integers the properties parameter names
SuppliedIds(params) ==
    {ToInt(Criteria(params)[k]) : k \in 1..Len(Criteria(params))}

\* the products that have, for every property with a supplied value, a unit
\* with one of the supplied values of that property
PropertyMatches(ids) ==
    {p \in Products :
        \A key \in {v.property_id : v \in PropertyValues} :
            LET group == {v.id : v \in {w \in PropertyValues :
                                          w.property_id = key /\ w.id \in ids}}
            IN group # {} => \E u \in UnitsOf(p) : ValueSetOf(u) \cap group # {}}

\* C7: with well-formed properties, the products returned all match every
\* property group (one value of the group on some unit); with properties as
\* the only parameter the products returned are exactly those.
C7_PropertyGroups ==
    (listing # None /\ ~listing[1].result.error) =>
        LET params == listing[1].params
            result == listing[1].result
        IN /\ Truthy(params.properties)
                => result.products \subseteq PropertyMatches(SuppliedIds(params))
           /\ (Truthy(params.properties) /\ Supplied(params) = {"properties"})
                => result.products = PropertyMatches(SuppliedIds(params))

\* properties=1,2,3 alone: p1 matches with u1 (value 1) and u3 (value 3), p2
\* has value 2 but none of property B
C7_Witness ==
    /\ listing # None
    /\ listing[1].params = [NoParams EXCEPT !["properties"] =
                              Some(<<"1", ",", "2", ",", "3">>)]
    /\ listing[1].result.products = {"p1"}

====
